---------------------------- MODULE Spec2Model ----------------------------
(***************************************************************************)
(* A model of megacli-python (src/megacli/__init__.py): the MegaCLI class  *)
(* that shells out to the MegaCli executable, normalises its output, and   *)
(* parses it into records, plus the create_ld / remove_ld command builders.*)
(*                                                                         *)
(* Text is modelled as sequences of one-character strings so that the      *)
(* regular expressions and string operations of the source can be modelled *)
(* by what they do.                                                        *)
(***************************************************************************)
EXTENDS Integers, Sequences, FiniteSets, TLC

(***************************************************************************)
(* Bounds of the explored input space.                                     *)
(***************************************************************************)
\* lines of MegaCli output fed to a query
MaxLines == 4
\* characters of free-form stdout fed to execute()
MaxText == 4
\* digits in the integer part of a numeric property value
MaxIntLen == 2
\* digits in the fractional part of a numeric property value
MaxFracLen == 1

(***************************************************************************)
(* Characters, bytes and strings (Python 3).  A character is a string: a   *)
(* printable ASCII character is itself, "\t" "\n" "\f" "\r" are the TLA+   *)
(* escapes, and any other character is named by its Python escape, as in   *)
(* "\\x0b", "\\xa0" or "\\u2028" (so is the backquote, "\\x60", which a     *)
(* TLA+ string cannot hold).  A byte is named like the character of the    *)
(* same number.  A str and a bytes are sequences of these.                 *)
(*                                                                         *)
(* The alphabet is the characters U+0000..U+00FF and the whitespace above  *)
(* them: within it \s, \d and str.lower() are modelled exactly.  Cased     *)
(* letters and decimal digits above U+00FF are outside it.                 *)
(***************************************************************************)
\* chr(0) .. chr(255), and the bytes 0 .. 255
Latin1 == <<
  "\\x00", "\\x01", "\\x02", "\\x03", "\\x04", "\\x05", "\\x06", "\\x07",
  "\\x08", "\t", "\n", "\\x0b", "\f", "\r", "\\x0e", "\\x0f",
  "\\x10", "\\x11", "\\x12", "\\x13", "\\x14", "\\x15", "\\x16", "\\x17",
  "\\x18", "\\x19", "\\x1a", "\\x1b", "\\x1c", "\\x1d", "\\x1e", "\\x1f",
  " ", "!", "\"", "#", "$", "%", "&", "'",
  "(", ")", "*", "+", ",", "-", ".", "/",
  "0", "1", "2", "3", "4", "5", "6", "7",
  "8", "9", ":", ";", "<", "=", ">", "?",
  "@", "A", "B", "C", "D", "E", "F", "G",
  "H", "I", "J", "K", "L", "M", "N", "O",
  "P", "Q", "R", "S", "T", "U", "V", "W",
  "X", "Y", "Z", "[", "\\", "]", "^", "_",
  "\\x60", "a", "b", "c", "d", "e", "f", "g",
  "h", "i", "j", "k", "l", "m", "n", "o",
  "p", "q", "r", "s", "t", "u", "v", "w",
  "x", "y", "z", "{", "|", "}", "~", "\\x7f",
  "\\x80", "\\x81", "\\x82", "\\x83", "\\x84", "\\x85", "\\x86", "\\x87",
  "\\x88", "\\x89", "\\x8a", "\\x8b", "\\x8c", "\\x8d", "\\x8e", "\\x8f",
  "\\x90", "\\x91", "\\x92", "\\x93", "\\x94", "\\x95", "\\x96", "\\x97",
  "\\x98", "\\x99", "\\x9a", "\\x9b", "\\x9c", "\\x9d", "\\x9e", "\\x9f",
  "\\xa0", "\\xa1", "\\xa2", "\\xa3", "\\xa4", "\\xa5", "\\xa6", "\\xa7",
  "\\xa8", "\\xa9", "\\xaa", "\\xab", "\\xac", "\\xad", "\\xae", "\\xaf",
  "\\xb0", "\\xb1", "\\xb2", "\\xb3", "\\xb4", "\\xb5", "\\xb6", "\\xb7",
  "\\xb8", "\\xb9", "\\xba", "\\xbb", "\\xbc", "\\xbd", "\\xbe", "\\xbf",
  "\\xc0", "\\xc1", "\\xc2", "\\xc3", "\\xc4", "\\xc5", "\\xc6", "\\xc7",
  "\\xc8", "\\xc9", "\\xca", "\\xcb", "\\xcc", "\\xcd", "\\xce", "\\xcf",
  "\\xd0", "\\xd1", "\\xd2", "\\xd3", "\\xd4", "\\xd5", "\\xd6", "\\xd7",
  "\\xd8", "\\xd9", "\\xda", "\\xdb", "\\xdc", "\\xdd", "\\xde", "\\xdf",
  "\\xe0", "\\xe1", "\\xe2", "\\xe3", "\\xe4", "\\xe5", "\\xe6", "\\xe7",
  "\\xe8", "\\xe9", "\\xea", "\\xeb", "\\xec", "\\xed", "\\xee", "\\xef",
  "\\xf0", "\\xf1", "\\xf2", "\\xf3", "\\xf4", "\\xf5", "\\xf6", "\\xf7",
  "\\xf8", "\\xf9", "\\xfa", "\\xfb", "\\xfc", "\\xfd", "\\xfe", "\\xff" >>

HexDigits == <<"0","1","2","3","4","5","6","7","8","9","a","b","c","d","e","f">>

\* characters above U+007F of the first 256, and the bytes above 127
HighChars == {Latin1[i] : i \in 129..256}

\* ord(c) for a character below U+0100, and the number of a byte
Ord(c) == (CHOOSE i \in 1..256 : Latin1[i] = c) - 1

\* the hexadecimal digits of n, at least width of them
RECURSIVE HexName(_, _)
HexName(n, width) ==
  IF width <= 1 /\ n < 16 THEN HexDigits[n + 1]
  ELSE HexName(n \div 16, width - 1) \o HexDigits[(n % 16) + 1]

\* chr(cp)
Chr(cp) ==
  IF cp < 256 THEN Latin1[cp + 1]
  ELSE IF cp < 65536 THEN "\\u" \o HexName(cp, 4)
  ELSE "\\U" \o HexName(cp, 8)

\* the whitespace above U+00FF, by code point
WideWhitespace == {5760, 8232, 8233, 8239, 8287, 12288} \cup (8192..8202)

\* the characters \s matches and str.rstrip() strips (str.isspace())
Whitespace ==
  {"\t", "\n", "\\x0b", "\f", "\r", "\\x1c", "\\x1d", "\\x1e", "\\x1f", " ", "\\x85", "\\xa0"}
  \cup {Chr(cp) : cp \in WideWhitespace}

DigitChars == <<"0","1","2","3","4","5","6","7","8","9">>

\* the characters str.lower() changes: A-Z, and U+00C0..U+00DE but U+00D7
Uppers == {Latin1[i + 1] : i \in (65..90) \cup ((192..222) \ {215})}

DigitSet == {DigitChars[i] : i \in 1..10}

IsSpace(c) == c \in Whitespace

IsDigit(c) == c \in DigitSet

IsUpper(c) == c \in Uppers

DigitVal(c) == (CHOOSE i \in 1..10 : DigitChars[i] = c) - 1

\* str.lower() on one character: the lower-case letter is 32 above
LowerChar(c) == IF IsUpper(c) THEN Latin1[Ord(c) + 33] ELSE c

\* str.lower()
Lower(s) == [i \in 1..Len(s) |-> LowerChar(s[i])]

\* s[from:] (1-based, from may exceed Len(s)+1)
Drop(s, from) == IF from > Len(s) THEN <<>> ELSE SubSeq(s, from, Len(s))

\* s.startswith(p) at position pos
MatchAt(s, pos, p) ==
  /\ pos + Len(p) - 1 <= Len(s)
  /\ \A i \in 1..Len(p) : s[pos + i - 1] = p[i]

\* the first position at or after pos whose character is not in class, Len(s)+1 if none
FirstOutside(s, pos, class) ==
  IF \E i \in pos..Len(s) : s[i] \notin class
  THEN CHOOSE i \in pos..Len(s) : s[i] \notin class /\ \A j \in pos..(i - 1) : s[j] \in class
  ELSE IF pos > Len(s) THEN pos ELSE Len(s) + 1

\* position just after the run of characters satisfying \s starting at pos
SkipSpace(s, pos) == FirstOutside(s, pos, Whitespace)

\* position just after the run of \d starting at pos
SkipDigits(s, pos) == FirstOutside(s, pos, DigitSet)

\* int() of a string of digits
RECURSIVE ParseInt(_)
ParseInt(s) ==
  IF s = <<>> THEN 0 ELSE 10 * ParseInt(SubSeq(s, 1, Len(s) - 1)) + DigitVal(s[Len(s)])

\* str.rstrip()
RStrip(s) ==
  IF \E i \in 1..Len(s) : ~IsSpace(s[i])
  THEN SubSeq(s, 1, CHOOSE i \in 1..Len(s) :
                      ~IsSpace(s[i]) /\ \A j \in (i + 1)..Len(s) : IsSpace(s[j]))
  ELSE <<>>

\* re.sub('(^\s*|\s*$)', '', line)
StripBoth(s) == LET r == RStrip(s) IN Drop(r, SkipSpace(r, 1))

\* str.split(sep) for a one-character separator: always at least one field
RECURSIVE Split(_, _)
Split(s, sep) ==
  IF \E i \in 1..Len(s) : s[i] = sep
  THEN LET c == CHOOSE i \in 1..Len(s) : s[i] = sep /\ \A j \in 1..(i - 1) : s[j] /= sep
       IN <<SubSeq(s, 1, c - 1)>> \o Split(Drop(s, c + 1), sep)
  ELSE <<s>>

\* filter(None, seq): drops the empty strings
FilterNonEmpty(seq) == SelectSeq(seq, LAMBDA l : l /= <<>>)

\* str.replace(old, new), all non-overlapping occurrences left to right
RECURSIVE ReplaceFrom(_, _, _, _)
ReplaceFrom(s, pos, old, new) ==
  IF pos > Len(s) THEN <<>>
  ELSE IF MatchAt(s, pos, old) THEN new \o ReplaceFrom(s, pos + Len(old), old, new)
  ELSE <<s[pos]>> \o ReplaceFrom(s, pos + 1, old, new)

Replace(s, old, new) == ReplaceFrom(s, 1, old, new)

\* re.sub('\s*:\s*', ':', s): a colon with the whitespace around it becomes ':'
RECURSIVE CollapseFrom(_, _)
CollapseFrom(s, pos) ==
  IF pos > Len(s) THEN <<>>
  ELSE LET c == SkipSpace(s, pos) IN
       IF c <= Len(s) /\ s[c] = ":"
       THEN <<":">> \o CollapseFrom(s, SkipSpace(s, c + 1))
       ELSE <<s[pos]>> \o CollapseFrom(s, pos + 1)

CollapseColons(s) == CollapseFrom(s, 1)

\* re.sub(':$', '', s): `$` is the end of the string or just before a final newline
DropFinalColon(s) ==
  IF s /= <<>> /\ s[Len(s)] = ":" THEN SubSeq(s, 1, Len(s) - 1)
  ELSE IF Len(s) >= 2 /\ s[Len(s)] = "\n" /\ s[Len(s) - 1] = ":"
  THEN SubSeq(s, 1, Len(s) - 2) \o <<"\n">>
  ELSE s

(***************************************************************************)
(* bytes.decode(): UTF-8, errors='strict'.                                 *)
(***************************************************************************)
\* a continuation byte, 10xxxxxx
IsCont(b) == b \in HighChars /\ Ord(b) < 192

\* the length of the sequence a lead byte starts, 0 for a byte that starts none
Utf8Len(b) ==
  IF b \notin HighChars THEN 1
  ELSE LET v == Ord(b) IN
       IF v \in 194..223 THEN 2
       ELSE IF v \in 224..239 THEN 3
       ELSE IF v \in 240..244 THEN 4
       ELSE 0

\* the second byte of a sequence: no overlong form, no surrogate, nothing above U+10FFFF
SecondOk(lead, second) ==
  LET l == Ord(lead)
      s == Ord(second)
  IN IF l = 224 THEN s \in 160..191
     ELSE IF l = 237 THEN s \in 128..159
     ELSE IF l = 240 THEN s \in 144..191
     ELSE IF l = 244 THEN s \in 128..143
     ELSE s \in 128..191

\* a well-formed sequence starts at i
Utf8At(bs, i) ==
  LET n == Utf8Len(bs[i]) IN
  /\ n /= 0
  /\ i + n - 1 <= Len(bs)
  /\ \A j \in (i + 1)..(i + n - 1) : IsCont(bs[j])
  /\ (n > 1 => SecondOk(bs[i], bs[i + 1]))

\* byte i belongs to a sequence that starts before it
Utf8Inside(bs, i) ==
  \E j \in 1..(i - 1) :
    /\ ~IsCont(bs[j])
    /\ \A k \in (j + 1)..i : IsCont(bs[k])
    /\ i <= j + Utf8Len(bs[j]) - 1

\* bs.decode() does not raise UnicodeDecodeError
Decodable(bs) ==
  \A i \in 1..Len(bs) : IF IsCont(bs[i]) THEN Utf8Inside(bs, i) ELSE Utf8At(bs, i)

\* the code point of the sequence that starts at i
CodePointAt(bs, i) ==
  LET n == Utf8Len(bs[i])
      c(k) == Ord(bs[i + k]) - 128
  IN IF n = 1 THEN Ord(bs[i])
     ELSE IF n = 2 THEN (Ord(bs[i]) - 192) * 64 + c(1)
     ELSE IF n = 3 THEN (Ord(bs[i]) - 224) * 4096 + c(1) * 64 + c(2)
     ELSE (Ord(bs[i]) - 240) * 262144 + c(1) * 4096 + c(2) * 64 + c(3)

\* bs.decode() of decodable bytes
Decode(bs) ==
  IF \A i \in 1..Len(bs) : bs[i] \notin HighChars THEN bs
  ELSE LET starts == SelectSeq([i \in 1..Len(bs) |-> i], LAMBDA i : ~IsCont(bs[i]))
       IN [k \in 1..Len(starts) |-> Chr(CodePointAt(bs, starts[k]))]

\* the per-line expression of execute()'s list comprehension
NormalizeLine(line) == DropFinalColon(Lower(CollapseColons(StripBoth(line))))

\* the lines execute() iterates over: filter(None, out.rstrip().split("\n"))
KeptLines(out) == FilterNonEmpty(Split(RStrip(out), "\n"))

\* the list execute() returns on success
ExecuteLines(out) == LET ls == KeptLines(out) IN [i \in 1..Len(ls) |-> NormalizeLine(ls[i])]

\* `if proc.returncode:`
Failed(rc) == rc /= 0

(***************************************************************************)
(* Python values.  An int is a TLC integer; a float is an exact decimal    *)
(* fixed-point number num / 10^dec whose numerator is an unbounded natural *)
(* in base 1024 (least significant limb first, no leading zero limb), so   *)
(* that sizes up to petabytes do not overflow.                             *)
(***************************************************************************)
Base == 1024

RECURSIVE BigFromInt(_)
BigFromInt(n) == IF n = 0 THEN <<>> ELSE <<n % Base>> \o BigFromInt(n \div Base)

RECURSIVE BigAddC(_, _, _)
BigAddC(a, b, carry) ==
  IF a = <<>> /\ b = <<>> THEN (IF carry = 0 THEN <<>> ELSE <<carry>>)
  ELSE LET x == IF a = <<>> THEN 0 ELSE a[1]
           y == IF b = <<>> THEN 0 ELSE b[1]
           t == x + y + carry
       IN <<t % Base>> \o BigAddC(IF a = <<>> THEN <<>> ELSE Tail(a),
                                  IF b = <<>> THEN <<>> ELSE Tail(b), t \div Base)

BigAdd(a, b) == BigAddC(a, b, 0)

RECURSIVE BigMulLimb(_, _, _)
BigMulLimb(a, m, carry) ==
  IF a = <<>> THEN BigFromInt(carry)
  ELSE LET t == a[1] * m + carry IN <<t % Base>> \o BigMulLimb(Tail(a), m, t \div Base)

RECURSIVE BigTrim(_)
BigTrim(a) == IF a /= <<>> /\ a[Len(a)] = 0 THEN BigTrim(SubSeq(a, 1, Len(a) - 1)) ELSE a

RECURSIVE BigMul(_, _)
BigMul(a, b) ==
  IF a = <<>> \/ b = <<>> THEN <<>>
  ELSE BigTrim(BigAdd(BigMulLimb(a, b[1], 0), <<0>> \o BigMul(a, Tail(b))))

\* quotient and remainder of a division by 10
RECURSIVE BigDivMod10(_)
BigDivMod10(a) ==
  IF a = <<>> THEN [q |-> <<>>, r |-> 0]
  ELSE LET hi == BigDivMod10(Tail(a))
           t == hi.r * Base + a[1]
       IN [q |-> BigTrim(<<t \div 10>> \o hi.q), r |-> t % 10]

RECURSIVE BigPow10(_)
BigPow10(d) == IF d = 0 THEN BigFromInt(1) ELSE BigMulLimb(BigPow10(d - 1), 10, 0)

VNone == [t |-> "None"]
VBool(b) == [t |-> "bool", b |-> b]
VInt(n) == [t |-> "int", n |-> n]
VFloat(num, dec) == [t |-> "float", num |-> num, dec |-> dec]
VStr(s) == [t |-> "str", s |-> s]

\* equality of two floats as numbers
FloatEq(x, y) ==
  /\ x.t = "float" /\ y.t = "float"
  /\ BigMul(x.num, BigPow10(y.dec)) = BigMul(y.num, BigPow10(x.dec))

\* float(s) for s = digits or digits '.' digits
ParseFloat(s) ==
  LET d == SkipDigits(s, 1)
      frac == Drop(s, d + 1)
  IN VFloat(BigFromInt(ParseInt(SubSeq(s, 1, d - 1) \o frac)), Len(frac))

\* float * int
FloatTimes(x, m) == VFloat(BigMul(x.num, m), x.dec)

(***************************************************************************)
(* __raid_level                                                            *)
(***************************************************************************)
raid_level(level) ==
  IF level = VStr(<<"p","r","i","m","a","r","y","-","0",","," ","s","e","c","o","n","d","a","r","y","-","0",","," ","r","a","i","d"," ","l","e","v","e","l"," ","q","u","a","l","i","f","i","e","r","-","0">>) THEN VInt(0)
  ELSE IF level = VStr(<<"p","r","i","m","a","r","y","-","1",","," ","s","e","c","o","n","d","a","r","y","-","0",","," ","r","a","i","d"," ","l","e","v","e","l"," ","q","u","a","l","i","f","i","e","r","-","0">>) THEN VInt(1)
  ELSE IF level = VStr(<<"p","r","i","m","a","r","y","-","5",","," ","s","e","c","o","n","d","a","r","y","-","0",","," ","r","a","i","d"," ","l","e","v","e","l"," ","q","u","a","l","i","f","i","e","r","-","3">>) THEN VInt(5)
  ELSE IF level = VStr(<<"p","r","i","m","a","r","y","-","6",","," ","s","e","c","o","n","d","a","r","y","-","0",","," ","r","a","i","d"," ","l","e","v","e","l"," ","q","u","a","l","i","f","i","e","r","-","3">>) THEN VInt(6)
  ELSE IF level = VStr(<<"p","r","i","m","a","r","y","-","1",","," ","s","e","c","o","n","d","a","r","y","-","3",","," ","r","a","i","d"," ","l","e","v","e","l"," ","q","u","a","l","i","f","i","e","r","-","0">>) THEN VInt(10)
  ELSE VNone

(***************************************************************************)
(* __to_property: the regular expressions                                  *)
(***************************************************************************)
\* `$`: the end of the string, or just before a final newline
AtEnd(s, pos) == pos = Len(s) + 1 \/ (pos = Len(s) /\ s[pos] = "\n")

\* position after an optional '%'
SkipPercent(s, pos) == IF pos <= Len(s) /\ s[pos] = "%" THEN pos + 1 ELSE pos

\* position after an optional (?:\.\d+) at pos
SkipFraction(s, pos) ==
  IF pos <= Len(s) /\ s[pos] = "." /\ SkipDigits(s, pos + 1) > pos + 1
  THEN SkipDigits(s, pos + 1) ELSE pos

\* index of the first alternative of alts that matches at pos, 0 if none
FirstAlt(s, pos, alts) ==
  IF \E i \in 1..Len(alts) : MatchAt(s, pos, alts[i])
  THEN CHOOSE i \in 1..Len(alts) :
         /\ MatchAt(s, pos, alts[i])
         /\ \A j \in 1..(i - 1) : ~MatchAt(s, pos, alts[j])
  ELSE 0

\* the same when the alternation is followed by `$`
FirstAltAtEnd(s, pos, alts) ==
  LET ok(i) == MatchAt(s, pos, alts[i]) /\ AtEnd(s, pos + Len(alts[i])) IN
  IF \E i \in 1..Len(alts) : ok(i)
  THEN CHOOSE i \in 1..Len(alts) : ok(i) /\ \A j \in 1..(i - 1) : ~ok(j)
  ELSE 0

\* '^(\d+)\s*%?$'
IntegerRe(v) ==
  LET d == SkipDigits(v, 1) IN
  d > 1 /\ AtEnd(v, SkipPercent(v, SkipSpace(v, d)))

\* '^(\d+)(?:\.\d+)?\s*%?$'
FloatRe(v) ==
  LET d == SkipDigits(v, 1) IN
  d > 1 /\ AtEnd(v, SkipPercent(v, SkipSpace(v, SkipFraction(v, d))))

\* '.*temperature.*' matched at the start of the key: `.` is any character but a newline
TemperatureKeyRe(key) ==
  \E p \in 1..Len(key) :
    /\ MatchAt(key, p, <<"t","e","m","p","e","r","a","t","u","r","e">>)
    /\ \A j \in 1..(p - 1) : key[j] /= "\n"

\* '^(\d+)\s*(?:c|degree celcius)'
TemperatureRe(v) ==
  LET d == SkipDigits(v, 1) IN
  d > 1 /\ FirstAlt(v, SkipSpace(v, d), << <<"c">>, <<"d","e","g","r","e","e"," ","c","e","l","c","i","u","s">> >>) /= 0

SizeUnits == << <<"b">>, <<"k","b">>, <<"m","b">>, <<"g","b">>, <<"t","b">>, <<"p","b">> >>

\* '^(\d+(?:\.\d+)?)\s*(b|kb|mb|gb|tb|pb)': <<end of group 1, unit index>>, or
\* <<0, 0>> without a match.  The optional fraction is tried first, then skipped.
SizeRe(v) ==
  LET d == SkipDigits(v, 1)
      f == SkipFraction(v, d)
      uf == FirstAlt(v, SkipSpace(v, f), SizeUnits)
      ud == FirstAlt(v, SkipSpace(v, d), SizeUnits)
  IN IF d = 1 THEN <<0, 0>>
     ELSE IF uf /= 0 THEN <<f, uf>>
     ELSE IF ud /= 0 THEN <<d, ud>>
     ELSE <<0, 0>>

TimeUnits == << <<"s">>, <<"s","e","c">>, <<"s","e","c","s">>, <<"s","e","c","o","n","d","s">>, <<"m">>, <<"m","i","n">>, <<"m","i","n","s">>, <<"m","i","n","u","t","e","s">>,
               <<"h">>, <<"h","o","u","r">>, <<"h","o","u","r","s">>, <<"d">>, <<"d","a","y">>, <<"d","a","y","s">> >>

\* '^(\d+)\s*(s|sec|...|days)$': the unit index, 0 without a match
TimeRe(v) ==
  LET d == SkipDigits(v, 1) IN
  IF d = 1 THEN 0 ELSE FirstAltAtEnd(v, SkipSpace(v, d), TimeUnits)

Kilo == BigFromInt(1024)

\* the chain with one factor of 1024 missing for 'tb'
SizeMultiplierShortTb(unit) ==
  IF unit = <<"k","b">> THEN Kilo
  ELSE IF unit = <<"m","b">> THEN BigMul(Kilo, Kilo)
  ELSE IF unit = <<"g","b">> THEN BigMul(BigMul(Kilo, Kilo), Kilo)
  ELSE IF unit = <<"t","b">> THEN BigMul(BigMul(Kilo, Kilo), Kilo)
  ELSE IF unit = <<"p","b">> THEN BigMul(BigMul(BigMul(BigMul(Kilo, Kilo), Kilo), Kilo), Kilo)
  ELSE BigFromInt(1)

\* the multiplier chain of the size branch
SizeMultiplier(unit) ==
  IF unit = <<"k","b">> THEN Kilo
  ELSE IF unit = <<"m","b">> THEN BigMul(Kilo, Kilo)
  ELSE IF unit = <<"g","b">> THEN BigMul(BigMul(Kilo, Kilo), Kilo)
  ELSE IF unit = <<"t","b">> THEN BigMul(BigMul(BigMul(Kilo, Kilo), Kilo), Kilo)
  ELSE IF unit = <<"p","b">> THEN BigMul(BigMul(BigMul(BigMul(Kilo, Kilo), Kilo), Kilo), Kilo)
  ELSE BigFromInt(1)

\* the multiplier the time branch uses: `multiplier` is set to 1 and the unit
\* branches assign to another name, `mutiplier`, which is never read
TimeMultiplier(unit) ==
  LET multiplier == 1
      mutiplier ==
        IF unit \in { <<"m">>, <<"m","i","n">>, <<"m","i","n","u","t","e">>, <<"m","i","n","s">>, <<"m","i","n","u","t","e","s">> } THEN 60
        ELSE IF unit \in { <<"h">>, <<"h","o","u","r">>, <<"h","o","u","r","s">> } THEN 60 * 60
        ELSE IF unit \in { <<"d">>, <<"d","a","y">>, <<"d","a","y","s">> } THEN 60 * 60 * 24
        ELSE 0
  IN multiplier

\* the property name
PropertyKey(key) ==
  Replace(Replace(Replace(Replace(Replace(key, <<" ">>, <<"_">>), <<"'","s">>, <<>>), <<".">>, <<>>),
                  <<"/">>, <<"_">>), <<"&">>, <<"a","n","d">>)

\* the property value
PropertyValue(key, value) ==
  LET d == SkipDigits(value, 1)
      group1 == SubSeq(value, 1, d - 1)
      sz == SizeRe(value)
      tm == TimeRe(value)
  IN IF value = <<"n","/","a">> \/ value = <<"n","o","n","e">> THEN VNone
     ELSE IF value = <<"y","e","s">> THEN VBool(TRUE)
     ELSE IF value = <<"n","o">> THEN VBool(FALSE)
     ELSE IF IntegerRe(value) THEN VInt(ParseInt(group1))
     ELSE IF FloatRe(value) THEN ParseFloat(group1)
     ELSE IF TemperatureKeyRe(key) /\ TemperatureRe(value) THEN VInt(ParseInt(group1))
     ELSE IF sz[2] /= 0
          THEN FloatTimes(ParseFloat(SubSeq(value, 1, sz[1] - 1)), SizeMultiplier(SizeUnits[sz[2]]))
     ELSE IF tm /= 0 THEN VInt(ParseInt(group1) * TimeMultiplier(TimeUnits[tm]))
     ELSE VStr(value)

\* __to_property(key, value)
to_property(key, value) == <<PropertyKey(key), PropertyValue(key, value)>>

(***************************************************************************)
(* Python objects used by the queries and the command builders.            *)
(***************************************************************************)
VList(items) == [t |-> "list", items |-> items]

\* bool(x)
Truthy(x) ==
  CASE x.t = "None" -> FALSE
    [] x.t = "bool" -> x.b
    [] x.t = "int" -> x.n /= 0
    [] x.t = "float" -> BigTrim(x.num) /= <<>>
    [] x.t = "str" -> x.s /= <<>>
    [] x.t = "list" -> x.items /= <<>>

\* isinstance(x, int): bool is a subclass of int
IsInstanceInt(x) == x.t \in {"int", "bool"}

IsInstanceBool(x) == x.t = "bool"

IsInstanceList(x) == x.t = "list"

\* the number an int or a bool compares as
NumberOf(x) == IF x.t = "bool" THEN (IF x.b THEN 1 ELSE 0) ELSE x.n

\* x == y: numbers compare by value, lists item by item
RECURSIVE PyEq(_, _)
PyEq(x, y) ==
  IF IsInstanceInt(x) /\ IsInstanceInt(y) THEN NumberOf(x) = NumberOf(y)
  ELSE IF IsInstanceInt(x) /\ y.t = "float"
  THEN NumberOf(x) >= 0 /\ FloatEq(VFloat(BigFromInt(NumberOf(x)), 0), y)
  ELSE IF x.t = "float" /\ IsInstanceInt(y)
  THEN NumberOf(y) >= 0 /\ FloatEq(x, VFloat(BigFromInt(NumberOf(y)), 0))
  ELSE IF x.t = "float" /\ y.t = "float" THEN FloatEq(x, y)
  ELSE IF x.t = "list" /\ y.t = "list"
  THEN /\ Len(x.items) = Len(y.items)
       /\ \A i \in 1..Len(x.items) : PyEq(x.items[i], y.items[i])
  ELSE x = y

\* x in [..]
PyIn(x, choices) == \E c \in choices : PyEq(x, c)

RECURSIVE NatToStr(_)
NatToStr(n) == IF n < 10 THEN <<DigitChars[n + 1]>>
               ELSE NatToStr(n \div 10) \o <<DigitChars[(n % 10) + 1]>>

\* str(n) of an int
IntToStr(n) == IF n < 0 THEN <<"-">> \o NatToStr(-n) ELSE NatToStr(n)

\* n copies of the character c
Repeat(c, n) == [i \in 1..n |-> c]

\* the decimal digits of a natural number, <<>> for 0
RECURSIVE BigDigits(_)
BigDigits(a) ==
  IF BigTrim(a) = <<>> THEN <<>>
  ELSE LET qr == BigDivMod10(BigTrim(a)) IN BigDigits(qr.q) \o <<DigitChars[qr.r + 1]>>

\* repr() of a float of at most 15 significant digits (the digits of a longer
\* one are those of the nearest double, which num / 10^dec does not carry):
\* the shortest digits, in exponent form below 1e-04 and from 1e+16
FloatRepr(x) ==
  LET all == BigDigits(x.num)
      n == IF all = <<>> THEN 0
           ELSE CHOOSE i \in 1..Len(all) :
                  all[i] /= "0" /\ \A j \in (i + 1)..Len(all) : all[j] = "0"
      sig == SubSeq(all, 1, n)
      decpt == Len(all) - x.dec
      e == decpt - 1
      ea == IF e < 0 THEN -e ELSE e
  IN IF all = <<>> THEN <<"0",".","0">>
     ELSE IF decpt > 16 \/ decpt < -3
     THEN <<sig[1]>> \o (IF n > 1 THEN <<".">> \o SubSeq(sig, 2, n) ELSE <<>>)
          \o <<"e">> \o (IF e < 0 THEN <<"-">> ELSE <<"+">>)
          \o (IF ea < 10 THEN <<"0">> ELSE <<>>) \o NatToStr(ea)
     ELSE IF decpt <= 0 THEN <<"0",".">> \o Repeat("0", -decpt) \o sig
     ELSE IF decpt >= n THEN sig \o Repeat("0", decpt - n) \o <<".","0">>
     ELSE SubSeq(sig, 1, decpt) \o <<".">> \o SubSeq(sig, decpt + 1, n)

\* the hexadecimal digits of n as characters, at least width of them
RECURSIVE HexChars(_, _)
HexChars(n, width) ==
  IF width <= 1 /\ n < 16 THEN <<HexDigits[n + 1]>>
  ELSE HexChars(n \div 16, width - 1) \o <<HexDigits[(n % 16) + 1]>>

\* str.isprintable() of one character of the alphabet
Printable(c) ==
  IF c \in {Latin1[i] : i \in 1..256}
  THEN LET cp == Ord(c) IN cp \in 32..126 \/ (cp \in 161..255 /\ cp /= 173)
  ELSE c \notin Whitespace

\* one character inside repr() of a str delimited by quote
ReprChar(c, quote) ==
  IF c = quote \/ c = "\\" THEN <<"\\", c>>
  ELSE IF c = "\t" THEN <<"\\","t">>
  ELSE IF c = "\n" THEN <<"\\","n">>
  ELSE IF c = "\r" THEN <<"\\","r">>
  ELSE IF Printable(c) THEN <<c>>
  ELSE IF c \in {Latin1[i] : i \in 1..256} THEN <<"\\","x">> \o HexChars(Ord(c), 2)
  ELSE <<"\\","u">> \o HexChars(CHOOSE cp \in WideWhitespace : Chr(cp) = c, 4)

RECURSIVE Flatten(_)
Flatten(ss) == IF ss = <<>> THEN <<>> ELSE ss[1] \o Flatten(Tail(ss))

\* repr() of a str: double quotes when it holds a single quote and no double quote
StrRepr(s) ==
  LET has(q) == \E i \in 1..Len(s) : s[i] = q
      quote == IF has("'") /\ ~has("\"") THEN "\"" ELSE "'"
  IN <<quote>> \o Flatten([i \in 1..Len(s) |-> ReprChar(s[i], quote)]) \o <<quote>>

\* sep.join(items) for a sequence of strings
RECURSIVE Join(_, _)
Join(items, sep) ==
  IF items = <<>> THEN <<>>
  ELSE IF Len(items) = 1 THEN items[1]
  ELSE items[1] \o sep \o Join(Tail(items), sep)

\* repr(x)
RECURSIVE Repr(_)
Repr(x) ==
  CASE x.t = "None" -> <<"N","o","n","e">>
    [] x.t = "bool" -> (IF x.b THEN <<"T","r","u","e">> ELSE <<"F","a","l","s","e">>)
    [] x.t = "int" -> IntToStr(x.n)
    [] x.t = "float" -> FloatRepr(x)
    [] x.t = "str" -> StrRepr(x.s)
    [] x.t = "list" ->
         <<"[">> \o Join([i \in 1..Len(x.items) |-> Repr(x.items[i])], <<","," ">>) \o <<"]">>

\* '{0}'.format(x): str(x), which is repr(x) but for a str
Format(x) == IF x.t = "str" THEN x.s ELSE Repr(x)

\* a dict: a function from keys (strings) to values
EmptyDict == [k \in {} |-> VNone]

Has(d, k) == k \in DOMAIN d

Put(d, k, v) == [x \in (DOMAIN d) \cup {k} |-> IF x = k THEN v ELSE d[x]]

K_adapter_id == <<"a","d","a","p","t","e","r","_","i","d">>
K_id == <<"i","d">>
K_enclosure_id == <<"e","n","c","l","o","s","u","r","e","_","i","d">>
K_exit_code == <<"e","x","i","t","_","c","o","d","e">>
K_raid_level == <<"r","a","i","d","_","l","e","v","e","l">>

(***************************************************************************)
(* The header patterns of the five queries.  Each gives the position just  *)
(* after the digits of group 1, or 0 when the line does not match.         *)
(***************************************************************************)
\* '^<prefix>(\d+)'
PrefixNumber(line, prefix) ==
  LET p == Len(prefix) + 1
      e == SkipDigits(line, p)
  IN IF MatchAt(line, 1, prefix) /\ e > p THEN e ELSE 0

\* group 1 of a match of '^<prefix>(\d+)' that ended at e
GroupInt(line, prefix, e) == VInt(ParseInt(SubSeq(line, Len(prefix) + 1, e - 1)))

P_enc_adapter == <<"n","u","m","b","e","r"," ","o","f"," ","e","n","c","l","o","s","u","r","e","s"," ","o","n"," ","a","d","a","p","t","e","r"," ">>
P_enc_child == <<"e","n","c","l","o","s","u","r","e"," ">>
P_ld_adapter == <<"a","d","a","p","t","e","r"," ">>
P_ld_child == <<"v","i","r","t","u","a","l"," ","d","r","i","v","e",":">>
P_pd_adapter == <<"a","d","a","p","t","e","r"," ","#">>
P_pd_child == <<"e","n","c","l","o","s","u","r","e"," ","d","e","v","i","c","e"," ","i","d",":">>
P_bbu == <<"b","b","u"," ","s","t","a","t","u","s"," ","f","o","r"," ","a","d","a","p","t","e","r",":">>
P_adapter == <<"a","d","a","p","t","e","r"," ","#">>

\* '^number of enclosures on adapter (\d+) --'
EncAdapterRe(line) ==
  LET e == PrefixNumber(line, P_enc_adapter) IN
  IF e /= 0 /\ MatchAt(line, e, <<" ","-","-">>) THEN e ELSE 0

\* '^adapter (\d+) -- virtual drive information$'
LdAdapterRe(line) ==
  LET e == PrefixNumber(line, P_ld_adapter)
      tail == <<" ","-","-"," ","v","i","r","t","u","a","l"," ","d","r","i","v","e"," ","i","n","f","o","r","m","a","t","i","o","n">>
  IN IF e /= 0 /\ MatchAt(line, e, tail) /\ AtEnd(line, e + Len(tail)) THEN e ELSE 0

\* line.split(':', 1)
SplitOnce(line) ==
  IF \E i \in 1..Len(line) : line[i] = ":"
  THEN LET c == CHOOSE i \in 1..Len(line) :
                  line[i] = ":" /\ \A j \in 1..(i - 1) : line[j] /= ":"
       IN <<SubSeq(line, 1, c - 1), Drop(line, c + 1)>>
  ELSE <<line>>

(***************************************************************************)
(* The MegaCli executable: what a run of it may produce.                   *)
(***************************************************************************)
\* the default of the cli_path parameter
DefaultCliPath == <<"/","o","p","t","/","M","e","g","a","R","A","I","D","/","M","e","g","a","C","l","i","/","M","e","g","a","C","l","i","6","4">>

\* the paths a MegaCLI object is constructed with
CliPaths == { DefaultCliPath, <<"/","u","s","r","/","s","b","i","n","/","m","e","g","a","c","l","i">> }

\* "{0} {1} -NoLog".format(self.cli_path, cmd)
CommandLine(path, cmd) == path \o <<" ">> \o cmd \o <<" ","-","N","o","L","o","g">>

Queries == {"enclosures", "logicaldrives", "physicaldrives", "bbu", "adapters"}

NestedQueries == {"enclosures", "logicaldrives", "physicaldrives"}

\* the argument string each query passes to execute()
QueryCmd(q) ==
  CASE q = "enclosures" -> <<"-","E","n","c","I","n","f","o"," ","-","a","A","L","L">>
    [] q = "logicaldrives" -> <<"-","L","D","I","n","f","o"," ","-","L","A","l","l"," ","-","a","A","l","l">>
    [] q = "physicaldrives" -> <<"-","P","D","L","i","s","t"," ","-","a","A","l","l">>
    [] q = "bbu" -> <<"-","A","d","p","B","b","u","C","m","d"," "," ","-","a","A","l","l">>
    [] q = "adapters" -> <<"-","A","d","p","A","l","l","I","n","f","o"," ","-","a","A","l","l">>

\* lines MegaCli prints for each query, as printed (before normalisation)
LinePool(q) ==
  CASE q = "enclosures" ->
         { <<" "," "," "," ","N","u","m","b","e","r"," ","o","f"," ","e","n","c","l","o","s","u","r","e","s"," ","o","n"," ","a","d","a","p","t","e","r"," ","0"," ","-","-"," ","1">>,
           <<" "," "," "," ","N","u","m","b","e","r"," ","o","f"," ","e","n","c","l","o","s","u","r","e","s"," ","o","n"," ","a","d","a","p","t","e","r"," ","1"," ","-","-"," ","1">>,
           <<" "," "," "," ","E","n","c","l","o","s","u","r","e"," ","0",":">>,
           <<" "," "," "," ","E","n","c","l","o","s","u","r","e"," ","1",":">>,
           <<" "," "," "," ","N","u","m","b","e","r"," ","o","f"," ","S","l","o","t","s"," ",":"," ","8">> }
    [] q = "logicaldrives" ->
         { <<"A","d","a","p","t","e","r"," ","0"," ","-","-"," ","V","i","r","t","u","a","l"," ","D","r","i","v","e"," ","I","n","f","o","r","m","a","t","i","o","n",":">>,
           <<"A","d","a","p","t","e","r"," ","1"," ","-","-"," ","V","i","r","t","u","a","l"," ","D","r","i","v","e"," ","I","n","f","o","r","m","a","t","i","o","n",":">>,
           <<"V","i","r","t","u","a","l"," ","D","r","i","v","e",":"," ","0"," ","(","T","a","r","g","e","t"," ","I","d",":"," ","0",")">>,
           <<"V","i","r","t","u","a","l"," ","D","r","i","v","e",":"," ","1"," ","(","T","a","r","g","e","t"," ","I","d",":"," ","1",")">>,
           <<"R","A","I","D"," ","L","e","v","e","l"," ",":"," ","P","r","i","m","a","r","y","-","1",","," ","S","e","c","o","n","d","a","r","y","-","0",","," ","R","A","I","D"," ","L","e","v","e","l"," ","Q","u","a","l","i","f","i","e","r","-","0">> }
    [] q = "physicaldrives" ->
         { <<"A","d","a","p","t","e","r"," ","#","0">>,
           <<"A","d","a","p","t","e","r"," ","#","1">>,
           <<"E","n","c","l","o","s","u","r","e"," ","D","e","v","i","c","e"," ","I","D",":"," ","2">>,
           <<"E","n","c","l","o","s","u","r","e"," ","D","e","v","i","c","e"," ","I","D",":"," ","3">>,
           <<"R","a","w"," ","S","i","z","e",":"," ","1",".","5"," ","T","B">> }
    [] q = "bbu" ->
         { <<"B","B","U"," ","s","t","a","t","u","s"," ","f","o","r"," ","A","d","a","p","t","e","r",":"," ","0">>,
           <<"B","B","U"," ","s","t","a","t","u","s"," ","f","o","r"," ","A","d","a","p","t","e","r",":"," ","1">>,
           <<"R","e","l","a","t","i","v","e"," ","S","t","a","t","e"," ","o","f"," ","C","h","a","r","g","e",":"," ","9","7"," ","%">>,
           <<"E","x","i","t"," ","C","o","d","e",":"," ","0","x","0","0">> }
    [] q = "adapters" ->
         { <<"A","d","a","p","t","e","r"," ","#","0">>,
           <<"A","d","a","p","t","e","r"," ","#","1">>,
           <<"M","e","m","o","r","y"," ","S","i","z","e"," "," "," "," "," "," ",":"," ","5","1","2","M","B">>,
           <<"E","x","i","t"," ","C","o","d","e",":"," ","0","x","0","0">> }

\* all sequences over S of length at most n
SeqsUpTo(S, n) == UNION { [1..m -> S] : m \in 0..n }

\* the lines, each ended by a newline
RECURSIVE Unlines(_)
Unlines(ls) == IF ls = <<>> THEN <<>> ELSE ls[1] \o <<"\n">> \o Unlines(Tail(ls))

\* bytes of the free-form output given to execute() directly
TextAlphabet == {"\n", " ", ":", "a", "B", "\\x0b"}

\* outputs with bytes above 127: U+00A0 and U+2028 in UTF-8, and bytes that
\* are not UTF-8 (a degree sign in Latin-1, a lone 0xff)
ByteTexts ==
  { <<"a","\\xc2","\\xa0",":","\\xc2","\\xa0","B","\\xc2","\\xa0","\n">>, <<"\\xe2","\\x80","\\xa8","\\xc3","\\x89","\n">>, <<"T","e","m","p"," ",":"," ","3","0","\\xb0","C","\n">>, <<"\\xff">> }

Stdouts(m) ==
  IF m \in Queries
  THEN { Unlines(ls) : ls \in SeqsUpTo(LinePool(m), MaxLines) }
       \cup { <<"A","d","a","p","t","e","r"," ","#","0","\n","I","n","q","u","i","r","y"," ","D","a","t","a"," ",":"," ","3","0","\\xc2","\\xb0","C","\n">>, <<"A","d","a","p","t","e","r"," ","#","0","\n","I","n","q","u","i","r","y"," ","D","a","t","a"," ",":"," ","3","0","\\xb0","C","\n">> }
  ELSE IF m = "execute" THEN SeqsUpTo(TextAlphabet, MaxText) \cup ByteTexts
  ELSE { <<>>, <<"A","d","a","p","t","e","r"," ","0",":"," ","C","r","e","a","t","e","d"," ","V","D"," ","0","\n","\n","E","x","i","t"," ","C","o","d","e",":"," ","0","x","0","0","\n">> }

Stderrs == { <<>>, <<"I","n","v","a","l","i","d"," ","i","n","p","u","t"," ","a","t"," ","o","r"," ","n","e","a","r"," ","t","o","k","e","n","\n"," ","\n">>, <<"\\xff","\n">> }

FailCodes == {1, 2}

\* what one run of the executable may give back to execute(): the exit status
\* and the bytes of stdout and stderr
Outcomes(m) ==
  { [rc |-> 0, out |-> o, err |-> <<>>] : o \in Stdouts(m) }
  \cup { [rc |-> 0, out |-> <<>>, err |-> e] : e \in Stderrs }
  \cup { [rc |-> r, out |-> o, err |-> e] :
           r \in FailCodes, o \in { <<>>, <<"E","x","i","t"," ","C","o","d","e",":"," ","0","x","0","1","\n">>, <<"\\xb0">> }, e \in Stderrs }
(***************************************************************************)
(* The state of one MegaCLI object and of the call in progress.            *)
(***************************************************************************)
VARIABLES
  cli_path,    \* self.cli_path
  pc,          \* "idle", "spawn" (about to run the executable), "parse", "done", "raised"
  method,      \* the public method called
  args,        \* its arguments
  cmd,         \* the argument string handed to execute()
  spawned,     \* the command lines run so far
  proc,        \* exit status, stdout and stderr of the process that ran
  data,        \* the list execute() returned
  idx,         \* the line the parsing loop is at
  adapter_id,  \* the loop's adapter_id local
  cur,         \* the dict the loop is filling (enc, ld, pd, bbu, adapter): its place in heap
  heap,        \* the dicts created by the call; ret holds references into it
  ret,         \* the list being returned, as references
  opener,      \* history: for each dict, the line whose header gave it its id (0: none)
  result,      \* the value returned
  exc          \* the exception raised

vars == <<cli_path, pc, method, args, cmd, spawned, proc, data, idx, adapter_id, cur, heap, ret,
          opener, result, exc>>

parser == <<idx, adapter_id, cur, heap, ret, opener>>

NoArgs == [t |-> "noargs"]
NoProc == [t |-> "noproc"]
NoValue == [t |-> "unset"]
NoExc == [kind |-> "none"]

\* __init__(cli_path): the object exists when the path does; otherwise the
\* constructor raises and there is no object to call
Init ==
  /\ cli_path \in CliPaths
  /\ \E exists \in BOOLEAN :
       IF exists
       THEN /\ pc = "idle"
            /\ method = "none"
            /\ exc = NoExc
       ELSE /\ pc = "raised"
            /\ method = "__init__"
            /\ exc = [kind |-> "RuntimeError", msg |-> Format(VStr(cli_path)) \o <<" ","n","o","t"," ","f","o","u","n","d">>]
  /\ args = NoArgs
  /\ cmd = <<>>
  /\ spawned = <<>>
  /\ proc = NoProc
  /\ data = <<>>
  /\ idx = 0
  /\ adapter_id = VNone
  /\ cur = 0
  /\ heap = <<>>
  /\ ret = <<>>
  /\ opener = <<>>
  /\ result = NoValue

(***************************************************************************)
(* The parsing loops.  A loop's locals are gathered in a record            *)
(* [adapter_id, cur, heap, ret, opener]; each ...Line operator is one      *)
(* iteration of the loop on one line.                                      *)
(***************************************************************************)
\* ret = []; adapter_id = None; x = {}
ParserStart == [adapter_id |-> VNone, cur |-> 1, heap |-> <<EmptyDict>>, ret |-> <<>>,
                opener |-> <<0>>]

\* the dict being filled
Current(st) == st.heap[st.cur]

\* ret.append(x)
Emit(st) == [st EXCEPT !.ret = Append(@, st.cur)]

\* x = d, a new dict
Fresh(st, d) == [st EXCEPT !.heap = Append(@, d), !.opener = Append(@, 0),
                           !.cur = Len(st.heap) + 1]

\* x[k] = v
SetKey(st, k, v) == [st EXCEPT !.heap[st.cur] = Put(@, k, v)]

\* x[k] = v by the header on line i, which gives the record its id
Open(st, k, v, i) == [SetKey(st, k, v) EXCEPT !.opener[st.cur] = i]

\* adapter_id = v
SetAdapter(st, v) == [st EXCEPT !.adapter_id = v]

\* the guard on the adapter without the test
AdapterSeenAlways(st) == TRUE

\* `if adapter_id is not None:`
AdapterSeen(st) == st.adapter_id /= VNone

\* the property lines of enclosures(), physicaldrives(), bbu() and adapters()
PropertyLine(st, line) ==
  LET fields == SplitOnce(line) IN
  IF Len(fields) > 1
  THEN LET kv == to_property(fields[1], fields[2]) IN
       IF kv[1] = K_exit_code THEN st ELSE SetKey(st, kv[1], kv[2])
  ELSE st

\* the property lines of logicaldrives()
LdPropertyLine(st, line) ==
  LET fields == SplitOnce(line) IN
  IF Len(fields) > 1
  THEN LET kv == to_property(fields[1], fields[2])
           level == raid_level(kv[2])
           v == IF kv[1] = K_raid_level /\ level /= VNone THEN level ELSE kv[2]
       IN IF kv[1] = K_exit_code THEN st ELSE SetKey(st, kv[1], v)
  ELSE st

\* enclosures(): one iteration.  On an adapter header the open record is
\* appended but `enclosure = {}` leaves enc the same dict.
EnclosuresLine(st, line, i) ==
  LET a == EncAdapterRe(line)
      c == PrefixNumber(line, P_enc_child)
  IN IF a /= 0
     THEN LET s1 == IF Has(Current(st), K_adapter_id) THEN Emit(st) ELSE st
              s2 == SetKey(s1, K_adapter_id, GroupInt(line, P_enc_adapter, a))
          IN SetAdapter(s2, Current(s2)[K_adapter_id])
     ELSE IF AdapterSeen(st)
     THEN IF c /= 0
          THEN LET s1 == IF Has(Current(st), K_id)
                         THEN Fresh(Emit(st), Put(EmptyDict, K_adapter_id, st.adapter_id))
                         ELSE st
               IN Open(s1, K_id, GroupInt(line, P_enc_child, c), i)
          ELSE IF Has(Current(st), K_id) THEN PropertyLine(st, line)
          ELSE st
     ELSE st

\* logicaldrives(): one iteration
LogicalDrivesLine(st, line, i) ==
  LET a == LdAdapterRe(line)
      c == PrefixNumber(line, P_ld_child)
  IN IF a /= 0
     THEN LET s1 == IF Has(Current(st), K_adapter_id) THEN Fresh(Emit(st), EmptyDict) ELSE st
              s2 == SetKey(s1, K_adapter_id, GroupInt(line, P_ld_adapter, a))
          IN SetAdapter(s2, Current(s2)[K_adapter_id])
     ELSE IF AdapterSeen(st)
     THEN IF c /= 0
          THEN LET s1 == IF Has(Current(st), K_id)
                         THEN Fresh(Emit(st), Put(EmptyDict, K_adapter_id, st.adapter_id))
                         ELSE st
               IN Open(s1, K_id, GroupInt(line, P_ld_child, c), i)
          ELSE IF Has(Current(st), K_id) THEN LdPropertyLine(st, line)
          ELSE st
     ELSE st

\* physicaldrives(): one iteration
PhysicalDrivesLine(st, line, i) ==
  LET a == PrefixNumber(line, P_pd_adapter)
      c == PrefixNumber(line, P_pd_child)
  IN IF a /= 0
     THEN LET s1 == IF Has(Current(st), K_adapter_id) THEN Fresh(Emit(st), EmptyDict) ELSE st
              s2 == SetKey(s1, K_adapter_id, GroupInt(line, P_pd_adapter, a))
          IN SetAdapter(s2, Current(s2)[K_adapter_id])
     ELSE IF AdapterSeen(st)
     THEN IF c /= 0
          THEN LET s1 == IF Has(Current(st), K_enclosure_id)
                         THEN Fresh(Emit(st), Put(EmptyDict, K_adapter_id, st.adapter_id))
                         ELSE st
               IN Open(s1, K_enclosure_id, GroupInt(line, P_pd_child, c), i)
          ELSE IF Has(Current(st), K_enclosure_id) THEN PropertyLine(st, line)
          ELSE st
     ELSE st

\* bbu(): one iteration
BbuLine(st, line, i) ==
  LET h == PrefixNumber(line, P_bbu) IN
  IF h /= 0
  THEN LET s1 == IF Has(Current(st), K_adapter_id) THEN Fresh(Emit(st), EmptyDict) ELSE st
       IN Open(s1, K_adapter_id, GroupInt(line, P_bbu, h), i)
  ELSE IF Has(Current(st), K_adapter_id) THEN PropertyLine(st, line)
  ELSE st

\* adapters(): one iteration (its adapter_id local is never assigned)
AdaptersLine(st, line, i) ==
  LET h == PrefixNumber(line, P_adapter) IN
  IF h /= 0
  THEN LET s1 == IF Has(Current(st), K_id) THEN Fresh(Emit(st), EmptyDict) ELSE st
       IN Open(s1, K_id, GroupInt(line, P_adapter, h), i)
  ELSE IF Has(Current(st), K_id) THEN PropertyLine(st, line)
  ELSE st

\* after the loop: `if len(x): ret.append(x)`
CloseLast(st) == IF DOMAIN Current(st) /= {} THEN Emit(st) ELSE st

\* the list a query returns: the dicts ret refers to, as they are at the return
Returned(st) == VList([j \in 1..Len(st.ret) |-> st.heap[st.ret[j]]])

(***************************************************************************)
(* create_ld and remove_ld: validation and the argument string.            *)
(***************************************************************************)
RaidLevelChoices == {VInt(0), VInt(1), VInt(5), VInt(6)}
WritePolicyChoices == {VStr(<<"W","T">>), VStr(<<"W","B">>)}
ReadPolicyChoices == {VStr(<<"N","O","R","A">>), VStr(<<"R","A">>), VStr(<<"A","D","R","A">>)}
CachePolicyChoices == {VStr(<<"D","i","r","e","c","t">>), VStr(<<"C","a","c","h","e","d">>)}
StripeSizeChoices == {VInt(8), VInt(16), VInt(32), VInt(64), VInt(128), VInt(256), VInt(512),
                      VInt(1024)}

\* the strings of a list of str
Strings(l) == [i \in 1..Len(l.items) |-> l.items[i].s]

\* the ValueError create_ld raises for its arguments, "" when it raises none
CreateLdError(a) ==
  IF IsInstanceInt(a.raid_level) /\ ~PyIn(a.raid_level, RaidLevelChoices)
    THEN "Logical drive's RAID level must be one of 0, 1, 5 or 6"
  ELSE IF ~IsInstanceInt(a.raid_level)
    THEN "Logical drive's RAID level must be type int"
  ELSE IF ~IsInstanceList(a.devices)
    THEN "Logical drive's devices must be type list"
  ELSE IF Truthy(a.write_policy) /\ ~PyIn(a.write_policy, WritePolicyChoices)
    THEN "Logical drive's write policy must be either WT (write through) or WB (write back)"
  ELSE IF Truthy(a.read_policy) /\ ~PyIn(a.read_policy, ReadPolicyChoices)
    THEN "Logical drive's read policy must be one of NORA (no read ahead), RA (read ahead) or ADRA (adaptive read ahead)"
  ELSE IF Truthy(a.cache_policy) /\ ~PyIn(a.cache_policy, CachePolicyChoices)
    THEN "Logical drive's cache policy can be either Direct or Cached"
  ELSE IF a.cached_bad_bbu /= VNone /\ ~IsInstanceBool(a.cached_bad_bbu)
    THEN "Logical drive's cached bad bbu flag must be type bool"
  ELSE IF Truthy(a.size) /\ ~IsInstanceInt(a.size)
    THEN "Logical drive's size must be type int"
  ELSE IF Truthy(a.stripe_size) /\ IsInstanceInt(a.stripe_size)
          /\ ~PyIn(a.stripe_size, StripeSizeChoices)
    THEN "Logical drive's stripe size must be one of 8, 16, 32, 64, 128, 256, 512, 1024"
  ELSE IF Truthy(a.stripe_size) /\ ~IsInstanceInt(a.stripe_size)
    THEN "Logical drive's stripe size must be type int"
  ELSE IF ~IsInstanceList(a.hot_spares)
    THEN "Logical drive's hot spares must be type list"
  ELSE IF ~IsInstanceBool(a.force)
    THEN "Logical drive's force flag must be type bool"
  ELSE IF ~IsInstanceInt(a.adapter)
    THEN "Logical drive's adapter ID must be type int"
  ELSE ""

\* the cmd list create_ld builds when it raises nothing
CreateLdCmd(a) ==
  << <<"-","R">> \o Format(a.raid_level) \o <<"[">> \o Join(Strings(a.devices), <<",">>) \o <<"]">> >>
  \o (IF Truthy(a.write_policy) THEN <<a.write_policy.s>> ELSE <<>>)
  \o (IF Truthy(a.read_policy) THEN <<a.read_policy.s>> ELSE <<>>)
  \o (IF Truthy(a.cache_policy) THEN <<a.cache_policy.s>> ELSE <<>>)
  \o (IF a.cached_bad_bbu = VNone THEN <<>>
      ELSE IF a.cached_bad_bbu.b THEN << <<"C","a","c","h","e","d","B","a","d","B","B","U">> >> ELSE << <<"N","o","C","a","c","h","e","d","B","a","d","B","B","U">> >>)
  \o (IF Truthy(a.size) THEN << <<"-","s","z">> \o Format(a.size) >> ELSE <<>>)
  \o (IF Truthy(a.stripe_size) THEN << <<"-","s","t","r","p","s","z">> \o Format(a.stripe_size) >> ELSE <<>>)
  \o (IF Len(a.hot_spares.items) > 0
      THEN << <<"-","H","s","p","[">> \o Join(Strings(a.hot_spares), <<",">>) \o <<"]">> >> ELSE <<>>)
  \o (IF Truthy(a.after_ld) THEN << <<"-","a","f","t","e","r","L","d"," ">> \o Format(a.after_ld) >> ELSE <<>>)
  \o (IF a.force.b THEN << <<"-","F","o","r","c","e">> >> ELSE <<>>)
  \o << <<"-","a">> \o Format(a.adapter) >>

\* the ValueError remove_ld raises, "" when it raises none
RemoveLdError(a) ==
  IF ~IsInstanceBool(a.force) THEN "Logical drive's force flag must be type bool"
  ELSE IF ~IsInstanceInt(a.adapter) THEN "Logical drive's adapter ID must be type int"
  ELSE ""

RemoveLdCmd(a) ==
  << <<"-","L">> \o Format(a.drive) >>
  \o (IF a.force.b THEN << <<"-","F","o","r","c","e">> >> ELSE <<>>)
  \o << <<"-","a">> \o Format(a.adapter) >>

\* arguments tried
DeviceList == VList(<< VStr(<<"E","0",":","S","0">>), VStr(<<"E","0",":","S","1">>) >>)

Half == VFloat(BigFromInt(15), 1)
Zero == VFloat(BigFromInt(0), 0)

\* a call with every optional parameter at its default
CreateLdDefaults ==
  [ raid_level |-> VInt(0), devices |-> DeviceList, adapter |-> VInt(0),
    write_policy |-> VNone, read_policy |-> VNone, cache_policy |-> VNone,
    cached_bad_bbu |-> VNone, size |-> VNone, stripe_size |-> VNone,
    hot_spares |-> VList(<<>>), after_ld |-> VNone, force |-> VBool(FALSE) ]

\* calls that differ in the level, the devices, the adapter and the policies
PolicyArgs ==
  { [CreateLdDefaults EXCEPT !.raid_level = v.raid_level, !.devices = v.devices,
                             !.adapter = v.adapter, !.write_policy = v.write_policy,
                             !.read_policy = v.read_policy, !.cache_policy = v.cache_policy,
                             !.force = v.force] :
    v \in [ raid_level : {VInt(0), VInt(5), VInt(2), VStr(<<"5">>)},
            devices : {DeviceList, VStr(<<"E","0",":","S","0">>)},
            adapter : {VInt(0), VStr(<<"0">>)},
            write_policy : {VNone, VStr(<<"W","B">>), VStr(<<>>), VStr(<<"X","X">>), Zero},
            read_policy : {VNone, VStr(<<"R","A">>), VStr(<<>>)},
            cache_policy : {VNone, VStr(<<"C","a","c","h","e","d">>), VStr(<<"c","a","c","h","e","d">>)},
            force : {VBool(FALSE), VBool(TRUE)} ] }

\* calls that differ in the flag, the sizes, the hot spares and the slot
NumberArgs ==
  { [CreateLdDefaults EXCEPT !.cached_bad_bbu = v.cached_bad_bbu, !.size = v.size,
                             !.stripe_size = v.stripe_size, !.hot_spares = v.hot_spares,
                             !.after_ld = v.after_ld] :
    v \in [ cached_bad_bbu : {VNone, VBool(TRUE), VBool(FALSE), VInt(1)},
            size : {VNone, VInt(100), Zero, Half},
            stripe_size : {VNone, VInt(0), VInt(64), VInt(7), VStr(<<"6","4">>), Zero, Half},
            hot_spares : {VList(<<>>), VList(<< VStr(<<"E","5",":","S","5">>) >>), VNone},
            after_ld : {VNone, VStr(<<"2">>), Half, Zero, VList(<< VStr(<<"i","t","'","s">>), VInt(1) >>)} ] }

CreateLdArgs == PolicyArgs \cup NumberArgs

RemoveLdArgs ==
  [ drive : {VStr(<<"0">>), VInt(0), Half, VNone, VList(<<>>)},
    adapter : {VInt(0), VStr(<<"0">>)},
    force : {VBool(FALSE), VBool(TRUE), VStr(<<"y","e","s">>)} ]

(***************************************************************************)
(* Property values tried on __to_property: a number, optional whitespace   *)
(* and a suffix; and the literal values.                                   *)
(***************************************************************************)
IntDigits == {"0", "1", "7"}
FracDigits == {"0", "5"}

IntStrings == UNION { [1..m -> IntDigits] : m \in 1..MaxIntLen }
FracStrings == {<<>>} \cup UNION { [1..m -> FracDigits] : m \in 1..MaxFracLen }

Suffixes ==
  { <<>>, <<"%">>, <<"c">>, <<"x">> }
  \cup { SizeUnits[i] : i \in 1..Len(SizeUnits) }
  \cup { TimeUnits[i] : i \in 1..Len(TimeUnits) }

ValueParts == [ int : IntStrings, frac : FracStrings, ws : {<<>>, <<" ">>}, suffix : Suffixes ]

\* the value string of its parts
ValueOf(p) ==
  p.int \o (IF p.frac = <<>> THEN <<>> ELSE <<".">> \o p.frac) \o p.ws \o p.suffix

LiteralValues == { <<"n","/","a">>, <<"n","o","n","e">>, <<"y","e","s">>, <<"n","o">>, <<"o","p","t","i","m","a","l">> }

PropertyKeys == { <<"s","i","z","e">>, <<"t","e","m","p","e","r","a","t","u","r","e">> }

NoParts == [int |-> <<>>, frac |-> <<>>, ws |-> <<>>, suffix |-> <<>>]

(***************************************************************************)
(* The calls.                                                              *)
(***************************************************************************)
\* a query is called: it passes its argument string to execute()
CallQuery(q) ==
  /\ pc = "idle"
  /\ method' = q
  /\ cmd' = QueryCmd(q)
  /\ pc' = "spawn"
  /\ UNCHANGED <<cli_path, args, spawned, proc, data, parser, result, exc>>

\* execute(cmd) is called directly
CallExecute ==
  /\ pc = "idle"
  /\ method' = "execute"
  /\ cmd' = <<"-","v">>
  /\ pc' = "spawn"
  /\ UNCHANGED <<cli_path, args, spawned, proc, data, parser, result, exc>>

\* create_ld(...) up to its call of execute()
create_ld ==
  /\ pc = "idle"
  /\ \E a \in CreateLdArgs :
       /\ method' = "create_ld"
       /\ args' = a
       /\ IF CreateLdError(a) /= ""
          THEN /\ exc' = [kind |-> "ValueError", msg |-> CreateLdError(a)]
               /\ pc' = "raised"
               /\ cmd' = cmd
          ELSE /\ cmd' = <<"-","C","f","g","L","D","A","d","d"," ">> \o Join(CreateLdCmd(a), <<" ">>)
               /\ pc' = "spawn"
               /\ exc' = exc
  /\ UNCHANGED <<cli_path, spawned, proc, data, parser, result>>

\* remove_ld(...) up to its call of execute()
remove_ld ==
  /\ pc = "idle"
  /\ \E a \in RemoveLdArgs :
       /\ method' = "remove_ld"
       /\ args' = a
       /\ IF RemoveLdError(a) /= ""
          THEN /\ exc' = [kind |-> "ValueError", msg |-> RemoveLdError(a)]
               /\ pc' = "raised"
               /\ cmd' = cmd
          ELSE /\ cmd' = <<"-","C","f","g","L","d","D","e","l"," ">> \o Join(RemoveLdCmd(a), <<" ">>)
               /\ pc' = "spawn"
               /\ exc' = exc
  /\ UNCHANGED <<cli_path, spawned, proc, data, parser, result>>

\* __to_property(key, value), as the queries call it on a property line
CallToProperty ==
  /\ pc = "idle"
  /\ \E k \in PropertyKeys :
       \/ \E p \in ValueParts :
            /\ args' = [key |-> k, value |-> ValueOf(p), parts |-> p]
            /\ result' = to_property(k, ValueOf(p))
       \/ \E v \in LiteralValues :
            /\ args' = [key |-> k, value |-> v, parts |-> NoParts]
            /\ result' = to_property(k, v)
  /\ method' = "to_property"
  /\ pc' = "done"
  /\ UNCHANGED <<cli_path, cmd, spawned, proc, data, parser, exc>>

\* execute(): the process runs and its output is decoded, which raises on
\* bytes that are not UTF-8; then a non-zero status raises, otherwise the
\* normalised lines go back to the caller, which returns them (execute,
\* create_ld, remove_ld) or starts its loop over them (`if data:`)
execute ==
  /\ pc = "spawn"
  /\ \E o \in Outcomes(method) :
       /\ proc' = o
       /\ spawned' = Append(spawned, CommandLine(cli_path, cmd))
       /\ IF ~Decodable(o.out)
          THEN /\ exc' = [kind |-> "UnicodeDecodeError", object |-> o.out]
               /\ pc' = "raised"
               /\ UNCHANGED <<data, parser, result>>
          ELSE IF ~Decodable(o.err)
          THEN /\ exc' = [kind |-> "UnicodeDecodeError", object |-> o.err]
               /\ pc' = "raised"
               /\ UNCHANGED <<data, parser, result>>
          ELSE IF Failed(o.rc)
          THEN /\ exc' = [kind |-> "MegaCLIError", msg |-> RStrip(Decode(o.err)),
                          exitcode |-> o.rc]
               /\ pc' = "raised"
               /\ UNCHANGED <<data, parser, result>>
          ELSE /\ data' = ExecuteLines(Decode(o.out))
               /\ exc' = exc
               /\ IF method \in Queries
                  THEN IF data' /= <<>>
                       THEN /\ pc' = "parse"
                            /\ idx' = 1
                            /\ adapter_id' = ParserStart.adapter_id
                            /\ cur' = ParserStart.cur
                            /\ heap' = ParserStart.heap
                            /\ ret' = ParserStart.ret
                            /\ opener' = ParserStart.opener
                            /\ result' = result
                       ELSE /\ pc' = "done"
                            /\ result' = VList(<<>>)
                            /\ UNCHANGED parser
                  ELSE /\ pc' = "done"
                       /\ result' = VList([i \in 1..Len(data') |-> VStr(data'[i])])
                       /\ UNCHANGED parser
  /\ UNCHANGED <<cli_path, method, args, cmd>>

\* the locals of the running loop
Locals == [adapter_id |-> adapter_id, cur |-> cur, heap |-> heap, ret |-> ret,
           opener |-> opener]

\* one iteration of the loop of query q
LineOf(q, st, line, i) ==
  CASE q = "enclosures" -> EnclosuresLine(st, line, i)
    [] q = "logicaldrives" -> LogicalDrivesLine(st, line, i)
    [] q = "physicaldrives" -> PhysicalDrivesLine(st, line, i)
    [] q = "bbu" -> BbuLine(st, line, i)
    [] q = "adapters" -> AdaptersLine(st, line, i)

\* `for line in data:` one line
ParseLine ==
  /\ pc = "parse"
  /\ idx <= Len(data)
  /\ LET st == LineOf(method, Locals, data[idx], idx) IN
       /\ adapter_id' = st.adapter_id
       /\ cur' = st.cur
       /\ heap' = st.heap
       /\ ret' = st.ret
       /\ opener' = st.opener
  /\ idx' = idx + 1
  /\ UNCHANGED <<cli_path, pc, method, args, cmd, spawned, proc, data, result, exc>>

\* the end of the loop: the last open record is appended and ret returned
Return ==
  /\ pc = "parse"
  /\ idx > Len(data)
  /\ LET st == CloseLast(Locals) IN
       /\ ret' = st.ret
       /\ result' = Returned(st)
  /\ pc' = "done"
  /\ UNCHANGED <<cli_path, method, args, cmd, spawned, proc, data, idx, adapter_id, cur, heap, opener, exc>>

Next ==
  \/ \E q \in Queries : CallQuery(q)
  \/ CallExecute
  \/ create_ld
  \/ remove_ld
  \/ CallToProperty
  \/ execute
  \/ ParseLine
  \/ Return

Spec == Init /\ [][Next]_vars

\* the whole loop of query q over lines from[..], from the locals st
RECURSIVE RunLoop(_, _, _, _)
RunLoop(q, st, lines, from) ==
  IF from > Len(lines) THEN st
  ELSE RunLoop(q, LineOf(q, st, lines[from], from), lines, from + 1)

\* what query q returns for the lines data
QueryResult(q, lines) ==
  IF lines = <<>> THEN VList(<<>>) ELSE Returned(CloseLast(RunLoop(q, ParserStart, lines, 1)))

(***************************************************************************)
(* Vocabulary of the properties.                                           *)
(***************************************************************************)
\* the prefix and the match of the adapter-level header of a nested query
AdapterPrefix(q) ==
  CASE q = "enclosures" -> P_enc_adapter
    [] q = "logicaldrives" -> P_ld_adapter
    [] q = "physicaldrives" -> P_pd_adapter

AdapterHeaderEnd(q, line) ==
  CASE q = "enclosures" -> EncAdapterRe(line)
    [] q = "logicaldrives" -> LdAdapterRe(line)
    [] q = "physicaldrives" -> PrefixNumber(line, P_pd_adapter)

ChildPrefix(q) ==
  CASE q = "enclosures" -> P_enc_child
    [] q = "logicaldrives" -> P_ld_child
    [] q = "physicaldrives" -> P_pd_child

\* the key under which a record of a nested query holds its own id
OwnIdKey(q) == IF q = "physicaldrives" THEN K_enclosure_id ELSE K_id

\* line i of lines is a header of the first level of query q
IsTopHeader(q, lines, i) ==
  CASE q \in NestedQueries -> AdapterHeaderEnd(q, lines[i]) /= 0
    [] q = "bbu" -> PrefixNumber(lines[i], P_bbu) /= 0
    [] q = "adapters" -> PrefixNumber(lines[i], P_adapter) /= 0

\* line i of lines is a header that opens a record of query q
IsOpeningHeader(q, lines, i) ==
  IF q \in NestedQueries
  THEN /\ ~IsTopHeader(q, lines, i)
       /\ PrefixNumber(lines[i], ChildPrefix(q)) /= 0
       /\ \E j \in 1..(i - 1) : IsTopHeader(q, lines, j)
  ELSE IsTopHeader(q, lines, i)

\* the number of the last adapter header before line i
LastAdapterBefore(q, lines, i) ==
  LET j == CHOOSE j \in 1..(i - 1) :
             /\ IsTopHeader(q, lines, j)
             /\ \A k \in (j + 1)..(i - 1) : ~IsTopHeader(q, lines, k)
  IN GroupInt(lines[j], AdapterPrefix(q), AdapterHeaderEnd(q, lines[j]))

\* the openers of the records returned, in the order returned
ReturnedOpeners == SelectSeq([j \in 1..Len(ret) |-> opener[ret[j]]], LAMBDA o : o /= 0)

\* the opening headers of the input, in the order of the input
OpeningHeaders(q, lines) ==
  SelectSeq([i \in 1..Len(lines) |-> i], LAMBDA i : IsOpeningHeader(q, lines, i))

\* a query has returned
QueryDone == pc = "done" /\ method \in Queries

\* __to_property has returned for a value made of a number and a suffix
CoercedNumber == pc = "done" /\ method = "to_property" /\ args.parts.int /= <<>>

\* big shifted by k limbs: big * 1024^k
RECURSIVE ShiftLimbs(_, _)
ShiftLimbs(big, k) == IF k = 0 \/ big = <<>> THEN big ELSE ShiftLimbs(<<0>> \o big, k - 1)

\* the decimal number int.frac as an exact float
DecimalOf(p) == VFloat(BigFromInt(ParseInt(p.int \o p.frac)), Len(p.frac))

\* the power of 1024 a size unit stands for
SizeExponent(u) ==
  CASE u = <<"b">> -> 0 [] u = <<"k","b">> -> 1 [] u = <<"m","b">> -> 2
    [] u = <<"g","b">> -> 3 [] u = <<"t","b">> -> 4 [] u = <<"p","b">> -> 5

SizeUnitSet == { SizeUnits[i] : i \in 1..Len(SizeUnits) }

TimeUnitSet == { TimeUnits[i] : i \in 1..Len(TimeUnits) }

\* the seconds a time unit stands for
SecondsOf(u) ==
  CASE u \in { <<"s">>, <<"s","e","c">>, <<"s","e","c","s">>, <<"s","e","c","o","n","d","s">> } -> 1
    [] u \in { <<"m">>, <<"m","i","n">>, <<"m","i","n","s">>, <<"m","i","n","u","t","e","s">> } -> 60
    [] u \in { <<"h">>, <<"h","o","u","r">>, <<"h","o","u","r","s">> } -> 3600
    [] u \in { <<"d">>, <<"d","a","y">>, <<"d","a","y","s">> } -> 86400

\* a line as execute() is meant to return it
LineNormal(l) ==
  /\ l /= <<>>
  /\ ~IsSpace(l[1])
  /\ ~IsSpace(l[Len(l)])
  /\ \A i \in 1..Len(l) : ~IsUpper(l[i])
  /\ \A i \in 1..Len(l) :
       l[i] = ":" => /\ (i > 1 => ~IsSpace(l[i - 1]))
                     /\ (i < Len(l) => ~IsSpace(l[i + 1]))

\* the enumerated parameters of create_ld are valid
NoneOrIn(x, choices) == x = VNone \/ x \in choices

CreateLdEnumsValid(a) ==
  /\ a.raid_level \in RaidLevelChoices
  /\ NoneOrIn(a.write_policy, WritePolicyChoices)
  /\ NoneOrIn(a.read_policy, ReadPolicyChoices)
  /\ NoneOrIn(a.cache_policy, CachePolicyChoices)
  /\ NoneOrIn(a.stripe_size, StripeSizeChoices)

\* msg is err without its trailing whitespace
StderrCarried(msg, err) ==
  /\ Len(msg) <= Len(err)
  /\ SubSeq(err, 1, Len(msg)) = msg
  /\ \A i \in (Len(msg) + 1)..Len(err) : IsSpace(err[i])
  /\ (msg /= <<>> => ~IsSpace(msg[Len(msg)]))

\* the lines the loop has gone through
Consumed == IF pc = "parse" THEN idx - 1 ELSE Len(data)

\* the first recognised header of lines, Len(lines)+1 when there is none
FirstHeader(q, lines) ==
  IF \E i \in 1..Len(lines) : IsTopHeader(q, lines, i)
  THEN CHOOSE i \in 1..Len(lines) :
         IsTopHeader(q, lines, i) /\ \A j \in 1..(i - 1) : ~IsTopHeader(q, lines, j)
  ELSE Len(lines) + 1

(***************************************************************************)
(* C1.  For enclosures(), logicaldrives() and physicaldrives(): every      *)
(* returned record that was opened by a child header has adapter_id equal  *)
(* to the number of the adapter header that most recently preceded that    *)
(* child header in the input.                                              *)
(***************************************************************************)
C1_AdapterIdOfChildRecords ==
  (QueryDone /\ method \in NestedQueries) =>
    \A j \in 1..Len(ret) :
      opener[ret[j]] /= 0 =>
        /\ Has(result.items[j], K_adapter_id)
        /\ result.items[j][K_adapter_id] = LastAdapterBefore(method, data, opener[ret[j]])

(***************************************************************************)
(* C2.  A duration string (a non-negative integer n, optional whitespace,  *)
(* a unit suffix) is coerced to the integer number of seconds: n for a     *)
(* seconds unit, n*60 for minutes, n*3600 for hours, n*86400 for days.     *)
(***************************************************************************)
C2_DurationInSeconds ==
  (CoercedNumber /\ args.parts.frac = <<>> /\ args.parts.suffix \in TimeUnitSet) =>
    result[2] = VInt(ParseInt(args.parts.int) * SecondsOf(args.parts.suffix))

(***************************************************************************)
(* C3.  When the process exits with status zero, every line execute()      *)
(* returns is non-empty, has no leading or trailing whitespace, has no     *)
(* upper-case character and no whitespace next to a colon.                 *)
(***************************************************************************)
C3_ExecuteLinesNormalized ==
  (proc /= NoProc /\ proc.rc = 0) => \A i \in 1..Len(data) : LineNormal(data[i])

(***************************************************************************)
(* C4.  create_ld runs the executable only when every parameter is valid   *)
(* (raid_level an integer in {0,1,5,6}; write_policy, read_policy,         *)
(* cache_policy and stripe_size each None or a member of its enumeration;  *)
(* adapter an integer), and a call with a supplied value outside its       *)
(* enumeration raises a validation error and runs no process.              *)
(***************************************************************************)
C4_CreateLdValidatesBeforeSpawn ==
  (method = "create_ld") =>
    /\ (pc = "spawn" \/ spawned /= <<>>) => (CreateLdEnumsValid(args) /\ args.adapter.t = "int")
    /\ ~CreateLdEnumsValid(args) => (exc.kind = "ValueError" /\ spawned = <<>>)

(***************************************************************************)
(* C5.  execute() raises the command error exactly when the process exits  *)
(* with a non-zero status; the error then carries the exit code and the    *)
(* captured stderr text (without its trailing whitespace) and nothing is   *)
(* returned, by execute() or by the method that called it; with status     *)
(* zero nothing is raised and the normalised lines are returned.           *)
(***************************************************************************)
C5_RaisesExactlyOnNonZeroExit ==
  (proc /= NoProc) =>
    /\ (exc.kind = "MegaCLIError") <=> (proc.rc /= 0)
    /\ (proc.rc /= 0) =>
         /\ pc = "raised"
         /\ exc.exitcode = proc.rc
         /\ StderrCarried(exc.msg, Decode(proc.err))
         /\ result = NoValue
         /\ data = <<>> /\ ret = <<>>
    /\ (proc.rc = 0) =>
         /\ exc = NoExc
         /\ pc \in {"parse", "done"}
         /\ Len(data) = Len(KeptLines(Decode(proc.out)))
         /\ (method \notin Queries) =>
              result = VList([i \in 1..Len(data) |->
                                VStr(NormalizeLine(KeptLines(Decode(proc.out))[i]))])

(***************************************************************************)
(* C6.  A decimal string (digits, a point, digits, an optional trailing    *)
(* "%") is coerced to the float it denotes: integer part and fractional    *)
(* part are both kept.                                                     *)
(***************************************************************************)
C6_DecimalKeepsFraction ==
  (CoercedNumber /\ args.parts.frac /= <<>> /\ args.parts.ws = <<>>
     /\ args.parts.suffix \in { <<>>, <<"%">> }) =>
    FloatEq(result[2], DecimalOf(args.parts))

(***************************************************************************)
(* C7.  A size string (a number, optional whitespace, a unit b, kb, mb,    *)
(* gb, tb or pb) is coerced to the number times 1024^k bytes, k = 0 for b  *)
(* up to 5 for pb; the two-letter units are never taken for b.             *)
(***************************************************************************)
C7_SizeInBytes ==
  (CoercedNumber /\ args.parts.suffix \in SizeUnitSet) =>
    LET d == DecimalOf(args.parts) IN
    FloatEq(result[2], VFloat(ShiftLimbs(d.num, SizeExponent(args.parts.suffix)), d.dec))

\* a decimal number of petabytes, with a space before the unit
C7_Witness ==
  /\ CoercedNumber
  /\ args.parts.suffix = <<"p","b">>
  /\ args.parts.frac = <<"5">>
  /\ args.parts.ws = <<" ">>
  /\ result[2].t = "float"
  /\ Len(result[2].num) = 6

(***************************************************************************)
(* C8.  For each of the five queries, each record-opening header yields    *)
(* exactly one record of the returned list, and the records appear in the  *)
(* order of their headers.                                                 *)
(***************************************************************************)
C8_OneRecordPerHeader ==
  QueryDone => ReturnedOpeners = OpeningHeaders(method, data)

(***************************************************************************)
(* C9.  For each of the five queries, the lines before the first           *)
(* recognised header leave the loop's locals and the result unchanged: the *)
(* loop is still in its starting state after them, the result is the one   *)
(* of the input without them, and an input without any recognised header   *)
(* gives the empty list.                                                   *)
(***************************************************************************)
C9_LinesBeforeFirstHeaderDiscarded ==
  (method \in Queries /\ pc \in {"parse", "done"}) =>
    LET first == FirstHeader(method, data) IN
    /\ (pc = "parse" /\ Consumed < first) =>
         /\ adapter_id = VNone /\ ret = <<>> /\ heap = <<EmptyDict>> /\ cur = 1
    /\ (pc = "done" /\ first > Len(data)) => result = VList(<<>>)
    /\ (pc = "done") => result = QueryResult(method, Drop(data, first))

\* a property line and a child header precede the first adapter header, and the
\* query returns the one record opened after it
C9_Witness ==
  /\ QueryDone
  /\ method \in NestedQueries
  /\ Len(data) >= 4
  /\ FirstHeader(method, data) = 3
  /\ Len(SplitOnce(data[1])) > 1
  /\ PrefixNumber(data[1], ChildPrefix(method)) = 0
  /\ PrefixNumber(data[2], ChildPrefix(method)) /= 0
  /\ Len(result.items) = 1
  /\ Has(result.items[1], OwnIdKey(method))

(***************************************************************************)
(* C10.  Every record returned by enclosures(), logicaldrives() or         *)
(* physicaldrives() carries its own identifying key (id, id, enclosure_id) *)
(* in addition to adapter_id.                                              *)
(***************************************************************************)
C10_RecordsCarryOwnId ==
  (QueryDone /\ method \in NestedQueries) =>
    \A j \in 1..Len(result.items) :
      /\ Has(result.items[j], K_adapter_id)
      /\ Has(result.items[j], OwnIdKey(method))

====
